---- MODULE Spec2Model ----
(***************************************************************************)
(* getBalanceTransactions: the ten-day funds-in / funds-out aggregation    *)
(* over the balance transactions returned by the payment platform.         *)
(*                                                                         *)
(* Time.  A Date is [sec, ms]: getTime() = sec * MsPerSec + ms, sec being  *)
(* Unix seconds.  The process runs in one local time zone, a fixed offset  *)
(* tz (seconds east of UTC); daylight-saving transitions are not modelled. *)
(* Money.  A major-unit amount x / 100 is kept as the exact decimal        *)
(* [whole, frac] with two fractional digits; the rounding of IEEE-754      *)
(* doubles is not modelled.                                                *)
(***************************************************************************)
EXTENDS Integers, Sequences, FiniteSets, TLC

VARIABLES pc, tz, calls, previous, currency, endDate, startDate, request,
          response, datesArray, fundsFlowByDate, transactionList, idx, branch,
          fundsInArray, fundsOutArray, returned

vars == <<pc, tz, calls, previous, currency, endDate, startDate, request,
          response, datesArray, fundsFlowByDate, transactionList, idx, branch,
          fundsInArray, fundsOutArray, returned>>

(* ---------------------------- bounds ----------------------------------- *)
MaxTxns == 2
MaxCalls == 2

(* ------------------------ program constants ---------------------------- *)
NUMBER_OF_DAYS == 10
MsPerSec == 1000
MinorPerMajor == 100
SecondsPerDay == 24 * 60 * 60

MonthNames == <<"Jan", "Feb", "Mar", "Apr", "May", "Jun",
                "Jul", "Aug", "Sep", "Oct", "Nov", "Dec">>

HoldType == "issuing_authorization_hold"
ReleaseType == "issuing_authorization_release"

(* ------------------------- input domains ------------------------------- *)
\* 2024-01-05 23:59:59.500 UTC, 2024-03-05 02:30:00.000 UTC,
\* 2023-07-01 00:00:00.000 UTC
NowInstants == { [sec |-> 19727 * SecondsPerDay + 86399, ms |-> 500],
                 [sec |-> 19787 * SecondsPerDay + 9000,  ms |-> 0],
                 [sec |-> 19539 * SecondsPerDay,         ms |-> 0] }
TZOffsets == {0, -5 * 3600}
Currencies == {"usd"}
Amounts == {1050, -500, 0}
Types == {HoldType, ReleaseType, "payment"}

(* --------------------------- calendar ---------------------------------- *)
Abs(a) == IF a < 0 THEN -a ELSE a

\* proleptic Gregorian date of the day numbered n (days since 1970-01-01)
CivilFromDays(n) ==
  LET z   == n + 719468
      era == z \div 146097
      doe == z - era * 146097
      yoe == (doe - doe \div 1460 + doe \div 36524 - doe \div 146096) \div 365
      doy == doe - (365 * yoe + yoe \div 4 - yoe \div 100)
      mp  == (5 * doy + 2) \div 153
      d   == doy - (153 * mp + 2) \div 5 + 1
      m   == IF mp < 10 THEN mp + 3 ELSE mp - 9
  IN  [year |-> yoe + era * 400 + (IF m <= 2 THEN 1 ELSE 0), month |-> m, day |-> d]

\* the local calendar day (day number) an instant of Unix seconds falls on
LocalDay(sec) == (sec + tz) \div SecondsPerDay

LabelOfDay(n) == LET c == CivilFromDays(n) IN <<MonthNames[c.month], c.day>>

\* format(date, "MMM dd"): abbreviated month name and day of month, local time
format(date) == LabelOfDay(LocalDay(date.sec))

\* addDays(date, amount): same local time of day, amount calendar days later
addDays(date, amount) == [sec |-> date.sec + amount * SecondsPerDay, ms |-> date.ms]

\* new Date(seconds * 1000)
DateOfSeconds(s) == [sec |-> s, ms |-> 0]

\* Math.floor(date.getTime() / 1000)
\* (getTime() = sec * MsPerSec + ms with 0 <= ms < MsPerSec)
FloorSeconds(date) == date.sec + date.ms \div MsPerSec


(* ---------------------------- amounts ---------------------------------- *)
Zero == [whole |-> 0, frac |-> 0]

\* variant: the sign is kept (no Math.abs)
MajorAmount_Signed(a) == [whole |-> a \div MinorPerMajor, frac |-> a % MinorPerMajor]

\* Math.abs(transaction.amount) / 100
MajorAmount(a) == [whole |-> Abs(a) \div MinorPerMajor, frac |-> Abs(a) % MinorPerMajor]

\* x += y on major-unit amounts
Plus(x, y) == [whole |-> x.whole + y.whole + (x.frac + y.frac) \div MinorPerMajor,
               frac  |-> (x.frac + y.frac) % MinorPerMajor]

(* ------------------------ pieces of the function ----------------------- *)
Range(s) == {s[i] : i \in 1..Len(s)}

\* Array.prototype.reverse
Reverse(s) == [i \in 1..Len(s) |-> s[Len(s) + 1 - i]]

\* variant: one day too far back
StartDate_TenBack(end) == addDays(end, -NUMBER_OF_DAYS)

StartDate(end) == addDays(end, -NUMBER_OF_DAYS + 1)

CreatedRange(start, end) == [gte |-> FloorSeconds(start), lte |-> FloorSeconds(end)]

\* variant: the index starts at 1, the days are [today - 10, today - 1]
DatesArray_OffByOne(end) == [i \in 1..NUMBER_OF_DAYS |-> format(addDays(end, -i))]

\* variant: one element short
DatesArray_Short(end) == [i \in 1..(NUMBER_OF_DAYS - 1) |-> format(addDays(end, -(i - 1)))]

\* Array.from({ length: NUMBER_OF_DAYS }, (_, index) => format(addDays(endDate, -index)))
DatesArray(end) == [i \in 1..NUMBER_OF_DAYS |-> format(addDays(end, -(i - 1)))]

\* variant: the buckets of the call before are kept (a map that outlives the call)
InitialFundsFlow_Stale(dates) ==
  [l \in Range(dates) |->
     IF l \in DOMAIN fundsFlowByDate THEN fundsFlowByDate[l]
     ELSE [date |-> l, fundsIn |-> Zero, fundsOut |-> Zero]]

\* datesArray.reduce(...): one zero bucket per label
InitialFundsFlow(dates) ==
  [l \in Range(dates) |-> [date |-> l, fundsIn |-> Zero, fundsOut |-> Zero]]

\* variant: only the release type is excluded
IsHoldOrRelease_ReleaseOnly(type) == type = ReleaseType

IsHoldOrRelease(type) == type = ReleaseType \/ type = HoldType

\* variant: amount >= 0
IsInflow_NonNegative(a) == a >= 0

\* transaction.amount > 0
IsInflow(a) == a > 0

\* the body of the forEach callback, on the buckets
Accumulate(flow, t) ==
  LET formattedDate == format(DateOfSeconds(t.created))
      amount == MajorAmount(t.amount)
  IN  IF IsHoldOrRelease(t.type) \/ formattedDate \notin DOMAIN flow
      THEN flow
      ELSE IF IsInflow(t.amount)
           THEN [flow EXCEPT ![formattedDate].fundsIn = Plus(@, amount)]
           ELSE [flow EXCEPT ![formattedDate].fundsOut = Plus(@, amount)]

\* variant: the push sits inside the hasOwnProperty block
Collect_MatchedOnly(list, flow, t) ==
  IF IsHoldOrRelease(t.type) \/ format(DateOfSeconds(t.created)) \notin DOMAIN flow
  THEN list ELSE Append(list, t)

\* the body of the forEach callback, on transactionList
Collect(list, flow, t) ==
  IF IsHoldOrRelease(t.type) THEN list ELSE Append(list, t)

\* which arm of the callback ran
BranchTaken(flow, t) ==
  IF IsHoldOrRelease(t.type) THEN "skipped"
  ELSE IF format(DateOfSeconds(t.created)) \notin DOMAIN flow THEN "noBucket"
  ELSE IF IsInflow(t.amount) THEN "fundsIn" ELSE "fundsOut"

MapFundsIn(dates, flow) == [i \in 1..Len(dates) |-> flow[dates[i]].fundsIn]
\* variant: fundsIn copied into the fundsOut array
MapFundsOut_CopiedIn(dates, flow) == [i \in 1..Len(dates) |-> flow[dates[i]].fundsIn]

MapFundsOut(dates, flow) == [i \in 1..Len(dates) |-> flow[dates[i]].fundsOut]

\* what the platform may answer to a request: any list of at most MaxTxns
\* records, created at either end of the requested range or 365 days before
\* its end (the platform's filtering is not relied on)
Pool(req) ==
  [created : {req.gte, req.lte, req.lte - 365 * SecondsPerDay},
   amount : Amounts, type : Types \ {HoldType, ReleaseType}]
  \cup [created : {req.lte, req.lte - 365 * SecondsPerDay}, amount : Amounts \ {0}, type : {HoldType, ReleaseType}]
Responses(req) == UNION {[1..n -> Pool(req)] : n \in 0..MaxTxns}

\* the answers the pending list call can resolve to: a repeated call gets the
\* answer of the call it repeats
Answers == IF previous = <<>> THEN Responses(request) ELSE {previous[1].data}

(* ----------------------------- actions --------------------------------- *)
NoDate == [sec |-> 0, ms |-> 0]
NoRange == [gte |-> 0, lte |-> 0]
NoBuckets == [l \in {} |-> Zero]

Init ==
  /\ pc = "idle"
  /\ tz \in TZOffsets
  /\ calls = 0
  /\ previous = <<>>
  /\ currency = ""
  /\ endDate = NoDate
  /\ startDate = NoDate
  /\ request = NoRange
  /\ response = <<>>
  /\ datesArray = <<>>
  /\ fundsFlowByDate = NoBuckets
  /\ transactionList = <<>>
  /\ idx = 0
  /\ branch = "none"
  /\ fundsInArray = <<>>
  /\ fundsOutArray = <<>>
  /\ returned = <<>>

\* entry up to the await of balanceTransactions.list
Enter(now, cur) ==
  /\ calls' = calls + 1
  /\ currency' = cur
  /\ endDate' = now
  /\ startDate' = StartDate(now)
  /\ request' = CreatedRange(startDate', endDate')
  /\ pc' = "awaiting"
  /\ UNCHANGED <<tz, response, datesArray, fundsFlowByDate, transactionList,
                 idx, branch, fundsInArray, fundsOutArray, returned>>

Invoke(now, cur) ==
  /\ pc = "idle"
  /\ previous' = <<>>
  /\ Enter(now, cur)

\* a second call with the same arguments, clock reading and platform answer
Reinvoke ==
  /\ pc = "done"
  /\ calls < MaxCalls
  /\ previous' = <<[endDate |-> endDate, currency |-> currency,
                    data |-> response, returned |-> returned[1]]>>
  /\ Enter(endDate, currency)

\* the list call resolves; dates and zero buckets are built
Resolved(data) ==
  /\ response' = data
  /\ datesArray' = DatesArray(endDate)
  /\ fundsFlowByDate' = InitialFundsFlow(datesArray')
  /\ transactionList' = <<>>
  /\ idx' = 1
  /\ pc' = "forEach"
  /\ UNCHANGED <<tz, calls, previous, currency, endDate, startDate, request,
                 branch, fundsInArray, fundsOutArray, returned>>

Resolve ==
  /\ pc = "awaiting"
  /\ \E data \in Answers : Resolved(data)

\* one iteration of balanceTransactions.data.forEach
ForEachStep ==
  /\ pc = "forEach"
  /\ idx <= Len(response)
  /\ fundsFlowByDate' = Accumulate(fundsFlowByDate, response[idx])
  /\ transactionList' = Collect(transactionList, fundsFlowByDate, response[idx])
  /\ branch' = BranchTaken(fundsFlowByDate, response[idx])
  /\ idx' = idx + 1
  /\ UNCHANGED <<pc, tz, calls, previous, currency, endDate, startDate, request,
                 response, datesArray, fundsInArray, fundsOutArray, returned>>

\* map the buckets to arrays, reverse all three, return
Return ==
  /\ pc = "forEach"
  /\ idx > Len(response)
  /\ datesArray' = Reverse(datesArray)
  /\ fundsInArray' = Reverse(MapFundsIn(datesArray, fundsFlowByDate))
  /\ fundsOutArray' = Reverse(MapFundsOut(datesArray, fundsFlowByDate))
  /\ returned' = <<[balanceTransactions |-> transactionList,
                    balanceFundsFlowChartData |->
                      [currency |-> currency,
                       balanceTransactionsDates |-> datesArray',
                       balanceTransactionsFundsIn |-> fundsInArray',
                       balanceTransactionsFundsOut |-> fundsOutArray']]>>
  /\ pc' = "done"
  /\ UNCHANGED <<tz, calls, previous, currency, endDate, startDate, request,
                 response, fundsFlowByDate, transactionList, idx, branch>>

Next ==
  \/ \E now \in NowInstants, cur \in Currencies : Invoke(now, cur)
  \/ Reinvoke
  \/ Resolve
  \/ ForEachStep
  \/ Return

Spec == Init /\ [][Next]_vars

(* ------------------- vocabulary of the properties ---------------------- *)
Held(t) == t.type \in {HoldType, ReleaseType}

\* the calendar days of the window, [today - (N - 1), today]
WindowDays == {LocalDay(endDate.sec) - k : k \in 0..(NUMBER_OF_DAYS - 1)}
OnWindowDay(t) == LocalDay(t.created) \in WindowDays
DayLabel(t) == LabelOfDay(LocalDay(t.created))

\* the step that runs the callback on response[idx]
Visiting == pc = "forEach" /\ idx <= Len(response) /\ idx' = idx + 1
\* the record the last callback ran on
Visited == pc \in {"forEach", "done"} /\ idx > 1
Last == response[idx - 1]

ToMinor(x) == x.whole * MinorPerMajor + x.frac

\* the labels of the first k records of the answer
RECURSIVE LabelsOf(_)
LabelsOf(k) == IF k = 0 THEN <<>> ELSE Append(LabelsOf(k - 1), DayLabel(response[k]))

\* minor units of the first k records of the answer that are no hold or
\* release, carry the label (labels[i] being the label of record i) and flow
\* in the direction asked for
RECURSIVE MinorTotal(_, _, _, _)
MinorTotal(k, labels, label, inflow) ==
  IF k = 0 THEN 0
  ELSE (IF /\ ~Held(response[k])
           /\ labels[k] = label
           /\ (response[k].amount > 0) = inflow
        THEN Abs(response[k].amount) ELSE 0)
       + MinorTotal(k - 1, labels, label, inflow)

RECURSIVE SumSeq(_)
SumSeq(q) == IF q = <<>> THEN 0 ELSE ToMinor(Head(q)) + SumSeq(Tail(q))

Chart == returned[1].balanceFundsFlowChartData

(* ------------------------------ C1 -------------------------------------- *)
\* C1: a finished call returns exactly NUMBER_OF_DAYS (10) date labels, no two
\* equal, the i-th being the label of calendar day today - (N - i); there is
\* one bucket per calendar day of [today - 9, today], whatever the records.
C1_TenConsecutiveDayLabels ==
  /\ pc = "done" =>
       LET d == Chart.balanceTransactionsDates IN
       /\ Len(d) = NUMBER_OF_DAYS
       /\ \A i, j \in 1..Len(d) : i # j => d[i] # d[j]
       /\ \A i \in 1..Len(d) :
            d[i] = LabelOfDay(LocalDay(endDate.sec) - (NUMBER_OF_DAYS - i))
  /\ pc \in {"forEach", "done"} =>
       Cardinality(DOMAIN fundsFlowByDate) = NUMBER_OF_DAYS
  /\ pc = "done" =>
       DOMAIN fundsFlowByDate = {LabelOfDay(n) : n \in WindowDays}

\* a window that crosses the year end, with records supplied
C1_Witness ==
  /\ pc = "done"
  /\ Len(response) > 0
  /\ Chart.balanceTransactionsDates[1][1] = "Dec"
  /\ Chart.balanceTransactionsDates[NUMBER_OF_DAYS] = <<"Jan", 5>>

(* ------------------------------ C2 -------------------------------------- *)
\* C2: a record dated on no calendar day of the window leaves every bucket as
\* it was and, unless it is a hold or release, is appended to the returned
\* list.
C2_OutsideWindowContributesNothing ==
  [][(Visiting /\ ~OnWindowDay(response[idx])) =>
       /\ fundsFlowByDate' = fundsFlowByDate
       /\ ~Held(response[idx]) =>
            transactionList' = Append(transactionList, response[idx])]_vars

(* ------------------------------ C3 -------------------------------------- *)
\* C3: the callback on a hold or release record changes no bucket and no
\* list, and no list built or returned ever holds such a record.
C3_HoldReleaseIgnored ==
  /\ [][(Visiting /\ Held(response[idx])) =>
          /\ fundsFlowByDate' = fundsFlowByDate
          /\ transactionList' = transactionList]_vars
  /\ [](pc \in {"forEach", "done"} =>
          \A i \in 1..Len(transactionList) : ~Held(transactionList[i]))
  /\ [](pc = "done" =>
          \A i \in 1..Len(returned[1].balanceTransactions) :
             ~Held(returned[1].balanceTransactions[i]))

\* a hold with a non-zero amount, dated on a window day, has been visited
C3_Witness ==
  /\ Visited
  /\ Last.type = HoldType
  /\ Last.amount # 0
  /\ OnWindowDay(Last)
  /\ branch = "skipped"

C5_ParallelAscendingSeries ==
  pc = "done" =>
    LET d == Chart.balanceTransactionsDates
        fin == Chart.balanceTransactionsFundsIn
        fout == Chart.balanceTransactionsFundsOut
        txLabel == LabelsOf(Len(response))
    IN  /\ Len(d) = Len(fin)
        /\ Len(d) = Len(fout)
        /\ Len(d) >= 1
        /\ d = [i \in 1..Len(d) |-> LabelOfDay(LocalDay(endDate.sec) - Len(d) + i)]
        /\ \A i \in 1..Len(d) :
             /\ ToMinor(fin[i]) = MinorTotal(Len(response), txLabel, d[i], TRUE)
             /\ ToMinor(fout[i]) = MinorTotal(Len(response), txLabel, d[i], FALSE)

\* money in on the last position and money out on the first
C5_Witness ==
  /\ pc = "done"
  /\ Chart.balanceTransactionsFundsIn[NUMBER_OF_DAYS] # Zero
  /\ Chart.balanceTransactionsFundsOut[1] # Zero
  /\ Chart.balanceTransactionsFundsIn[1] = Zero

(* ------------------------------ C6 -------------------------------------- *)
\* C6: with an empty record list the call can return, and what it returns
\* has 10 buckets with fundsIn = 0 and fundsOut = 0 in each, and an empty
\* record list.
C6_EmptyListAllZero ==
  /\ (pc = "forEach" /\ response = <<>>) => ENABLED Return
  /\ (pc = "done" /\ response = <<>>) =>
       /\ Len(returned) = 1
       /\ Len(Chart.balanceTransactionsDates) = 10
       /\ Chart.balanceTransactionsFundsIn = [i \in 1..10 |-> Zero]
       /\ Chart.balanceTransactionsFundsOut = [i \in 1..10 |-> Zero]
       /\ returned[1].balanceTransactions = <<>>

C6_Witness ==
  /\ pc = "done"
  /\ response = <<>>
  /\ calls = 1
  /\ Len(returned) = 1

C8_ZeroAmountIsOutflowOfZero ==
  [][(Visiting /\ ~Held(response[idx]) /\ OnWindowDay(response[idx])
        /\ response[idx].amount = 0) =>
       /\ branch' = "fundsOut"
       /\ fundsFlowByDate' = fundsFlowByDate
       /\ transactionList' = Append(transactionList, response[idx])]_vars

\* a zero-amount record was visited after a bucket had become non-zero
C8_Witness ==
  /\ Visited
  /\ Last.amount = 0
  /\ ~Held(Last)
  /\ OnWindowDay(Last)
  /\ branch = "fundsOut"
  /\ fundsFlowByDate[DayLabel(Last)].fundsOut # Zero
  /\ transactionList[Len(transactionList)] = Last

(* ------------------------------ C9 -------------------------------------- *)
\* C9: the returned list is the platform's list with the hold and release
\* records removed: same records, same order, same multiplicity.
C9_ReturnedListIsFilteredInput ==
  pc = "done" =>
    returned[1].balanceTransactions = SelectSeq(response, LAMBDA t : ~Held(t))

\* a hold was dropped and a record that matched no bucket was kept
C9_Witness ==
  /\ pc = "done"
  /\ Len(response) = 2
  /\ Held(response[1])
  /\ ~Held(response[2])
  /\ DayLabel(response[2]) \notin DOMAIN fundsFlowByDate
  /\ returned[1].balanceTransactions = <<response[2]>>

(* ------------------------------ C10 ------------------------------------- *)
\* the instants of [gte, lte] at which the local calendar day can change,
\* and the two ends: the label of an instant is constant between them
Probes ==
  {request.gte, request.lte}
  \cup UNION {{n * SecondsPerDay - tz, n * SecondsPerDay - tz - 1} :
                n \in LocalDay(request.gte)..(LocalDay(request.lte) + 1)}

InRange(s) == request.gte <= s /\ s <= request.lte

====
